---- MODULE Spec2Model ----
(***************************************************************************)
(* Async Task Orchestrator of the API console (App component):             *)
(* handleSendRequest / pollLoop / handleStopRequest / makeRequest and the  *)
(* path-expression helper getValueByPath.                                  *)
(*                                                                         *)
(* The handlers are modelled as the callbacks App hands to its children:   *)
(* they may be invoked in any state (the `disabled={loading}` attribute of *)
(* the send button in RequestPanel is not relied upon).                    *)
(*                                                                         *)
(* JavaScript runs each continuation to its next `await` without           *)
(* interleaving, so one action is one such run-to-completion step.         *)
(***************************************************************************)
EXTENDS Integers, Sequences, FiniteSets, TLC

(***************************************************************************)
(* Bounds of the model                                                     *)
(***************************************************************************)
MaxRuns == 2
MaxTicks == 3
MaxBudgets == 2

(***************************************************************************)
(* Program constants                                                       *)
(***************************************************************************)
MsPerSecond == 1000
DefaultTimeoutSeconds == 120

(***************************************************************************)
(* JSON / JavaScript values (tagged)                                       *)
(***************************************************************************)
Undef == [t |-> "undefined"]
Null == [t |-> "null"]
Str(s) == [t |-> "string", s |-> s]
Num(n) == [t |-> "number", n |-> n]
Bool(b) == [t |-> "boolean", b |-> b]
Obj(f) == [t |-> "object", o |-> f]
EmptyObj == Obj(<<>>)

\* JavaScript truthiness (ToBoolean) of a value
Truthy(v) ==
    CASE v.t = "undefined" -> FALSE
      [] v.t = "null" -> FALSE
      [] v.t = "string" -> v.s # ""
      [] v.t = "number" -> v.n # 0
      [] v.t = "boolean" -> v.b
      [] OTHER -> TRUE

\* acc[part]: own field of an object; a primitive has none of the field
\* names used here (no segment names `length` or a prototype member)
Index(acc, part) ==
    IF acc.t = "object" /\ part \in DOMAIN acc.o THEN acc.o[part] ELSE Undef

\* path.split('.').reduce((acc, part) => acc && acc[part], obj)
\* a path is held as the sequence of its dot-separated segments
RECURSIVE Reduce(_, _)
Reduce(acc, parts) ==
    IF parts = <<>> THEN acc
    ELSE Reduce(IF Truthy(acc) THEN Index(acc, Head(parts)) ELSE acc, Tail(parts))

\* only the last segment is looked up, in the object itself
getValueByPath_TopLevel(obj, path) ==
    IF path = <<>> THEN obj ELSE Index(obj, path[Len(path)])

getValueByPath(obj, path) == Reduce(obj, path)

\* Object.assign(target, source) on plain objects held as functions
ObjectAssign(target, source) ==
    [k \in (DOMAIN target) \cup (DOMAIN source) |->
        IF k \in DOMAIN source THEN source[k] ELSE target[k]]

(***************************************************************************)
(* JSON.parse of the staticParamsJson source.  A source text is held as    *)
(* its sequence of tokens; only flat objects with string members are       *)
(* well-formed here, everything else is a SyntaxError.                     *)
(***************************************************************************)
Punct == {"{", "}", ":", ","}
SyntaxError == [t |-> "SyntaxError"]

RECURSIVE ParseMembers(_, _)
ParseMembers(toks, acc) ==
    \* toks starts at a member `key : value`, followed by `,` or `}`
    IF Len(toks) < 4 THEN SyntaxError
    ELSE IF toks[1] \in Punct \/ toks[2] # ":" \/ toks[3] \in Punct THEN SyntaxError
    ELSE LET acc2 == ObjectAssign(acc, (toks[1] :> Str(toks[3])))
             rest == SubSeq(toks, 5, Len(toks))
         IN  IF toks[4] = "}" THEN (IF rest = <<>> THEN Obj(acc2) ELSE SyntaxError)
             ELSE IF toks[4] = "," THEN ParseMembers(rest, acc2)
             ELSE SyntaxError

JSONParse(toks) ==
    IF Len(toks) < 2 \/ toks[1] # "{" THEN SyntaxError
    ELSE IF toks = <<"{", "}">> THEN EmptyObj
    ELSE ParseMembers(Tail(toks), <<>>)

\* a === b for the values met here (an object is only identical to itself,
\* and no response object is ever a configured value)
StrictEq(a, b) == a.t = b.t /\ a.t # "object" /\ a = b

\* v?.[key]
OptChain(v, key) == IF v.t \in {"undefined", "null"} THEN Undef ELSE Index(v, key)

(***************************************************************************)
(* Time, in milliseconds.  Date.now() is read only in differences, so     *)
(* each run carries the time elapsed since its startTime and since its     *)
(* pollStartTime, and the time left on its timer; the clock advances by    *)
(* half a second or by the whole polling budget of the service.            *)
(***************************************************************************)
TickMs == MsPerSecond \div 2

(***************************************************************************)
(* The selected service: its asyncConfig (types.ts AsyncConfig) and the    *)
(* payload built from its enabled params.                                  *)
(***************************************************************************)
NoPath == <<>>
IdPath == <<"data", "task_id">>
MissingPath == <<"data", "missing">>
StatusPath == <<"data", "status">>
ErrorPath == <<"data", "error_message">>

BaseConfig ==
    [ present |-> TRUE,
      enabled |-> TRUE,
      submitResponseIdPath |-> IdPath,
      pollIdParamKey |-> "task_id",
      pollStatusPath |-> StatusPath,
      pollSuccessValue |-> Str("done"),
      pollFailedValue |-> Str("failed"),
      pollErrorPath |-> ErrorPath,
      staticParamsJson |-> <<>>,
      inheritParams |-> FALSE,
      pollInterval |-> TickMs,
      timeoutSeconds |-> 1,
      maxRetries |-> 1,
      payload |-> <<>> ]

StaticSources ==
    { <<>>,
      <<"{", "}">>,
      <<"{", "req_key", ":", "rk", "}">>,
      <<"{", "req_key", ":", "rk", ",", "task_id", ":", "S1", "}">>,
      <<"{", "req_key", ":", "rk">> }

SubmitPayloads ==
    { <<>>,
      [prompt |-> Str("p")],
      [prompt |-> Str("p"), task_id |-> Str("P1"), req_key |-> Str("pk")] }

ConfigSpace ==
    [ present : BOOLEAN,
      enabled : BOOLEAN,
      submitResponseIdPath : {IdPath, MissingPath},
      pollIdParamKey : {"task_id"},
      pollStatusPath : {StatusPath},
      pollSuccessValue : {Str("done")},
      pollFailedValue : {Undef, Str("failed")},
      pollErrorPath : {NoPath, ErrorPath},
      staticParamsJson : StaticSources,
      inheritParams : BOOLEAN,
      pollInterval : {TickMs, MsPerSecond},
      timeoutSeconds : {0, 1},
      maxRetries : {1},
      payload : SubmitPayloads ]

PayloadFields == {"staticParamsJson", "inheritParams", "payload"}
Differs(c, fields) == {f \in fields : c[f] # BaseConfig[f]}

\* configurations of the orchestration runs: the base one and those that
\* differ from it in one field other than the payload fields
Configs ==
    {c \in ConfigSpace : /\ Differs(c, PayloadFields) = {}
                         /\ Cardinality(Differs(c, DOMAIN c)) <= 1}

\* configurations of the payload runs: every combination of the payload
\* fields, everything else as in the base configuration
PayloadConfigs ==
    {c \in ConfigSpace : Differs(c, (DOMAIN c) \ PayloadFields) = {}}

\* the enabled flag is not read
AsyncEnabled_FlagIgnored(c) == c.present

\* selectedService.asyncConfig?.enabled
AsyncEnabled(c) == c.present /\ c.enabled

\* (config.timeoutSeconds || 120) * 1000
MaxDuration(c) ==
    (IF c.timeoutSeconds # 0 THEN c.timeoutSeconds ELSE DefaultTimeoutSeconds) * MsPerSecond

TickSteps(c) == {TickMs, MaxDuration(c)}
TicksOf(c, t) == (t \div MaxDuration(c)) + ((t % MaxDuration(c)) \div TickMs)

(***************************************************************************)
(* Network                                                                 *)
(***************************************************************************)
HttpStatuses == {200, 500}
Ok(status) == status >= 200 /\ status <= 299
StatusText(status) == IF status = 200 THEN "OK" ELSE "Internal Server Error"

SubmitBodies ==
    { Obj([data |-> Obj([task_id |-> Str("T1")])]),
      Obj([data |-> Obj([task_id |-> Num(0)])]),
      Obj([data |-> Obj([task_id |-> Str("")])]),
      Obj([data |-> Obj([task_id |-> Bool(FALSE)])]),
      Obj([data |-> Obj([task_id |-> Null])]),
      Obj([data |-> Num(0)]),
      Obj([data |-> Null]),
      EmptyObj,
      Obj([ResponseMetadata |-> Obj([Error |-> Obj([Message |-> Str("denied")])])]),
      Obj([ResponseMetadata |-> Obj([Error |-> Obj([Message |-> Str("")])])]) }

PollBodies ==
    { Obj([data |-> Obj([status |-> Str("running")])]),
      Obj([data |-> Obj([status |-> Str("done")])]),
      Obj([data |-> Obj([status |-> Str("failed"), error_message |-> Str("boom")])]),
      Obj([data |-> Obj([status |-> Str("failed")])]),
      EmptyObj }

\* outcome of fetch + res.json(): a parsed response, a body that is not
\* JSON, or a rejected fetch (TypeError: Failed to fetch)
Responses(bodies) ==
    [kind : {"response"}, status : HttpStatuses, body : bodies]
      \cup [kind : {"unparsable"}, status : HttpStatuses]
      \cup {[kind |-> "failed"]}

NoResponse == [kind |-> "none"]

Msg(tpl, args) == [tpl |-> tpl, args |-> args]
FailedToFetch == Msg("Failed to fetch", <<>>)
JsonSyntaxError == Msg("Unexpected token in JSON", <<>>)
CorsHint == Msg("Network Error: Failed to fetch. This is likely a CORS issue.", <<>>)

\* the exception that `await makeRequest(...)` / `await res.json()` raises
Thrown(resp) == IF resp.kind = "failed" THEN FailedToFetch ELSE JsonSyntaxError

(***************************************************************************)
(* Strings of the signer (services/volcSigner.ts).  A string is held as    *)
(* the sequence of the codes of its characters, so that escaping, case     *)
(* mapping, sorting and joining are computed as the code computes them.    *)
(***************************************************************************)
AsciiTable ==
    << " ", "!", "quote", "#", "$", "%", "&", "'", "(", ")", "*", "+", ",", "-", ".", "/",
       "0", "1", "2", "3", "4", "5", "6", "7", "8", "9", ":", ";", "<", "=", ">", "?",
       "@", "A", "B", "C", "D", "E", "F", "G", "H", "I", "J", "K", "L", "M", "N", "O",
       "P", "Q", "R", "S", "T", "U", "V", "W", "X", "Y", "Z", "[", "backslash", "]", "^", "_",
       "backtick", "a", "b", "c", "d", "e", "f", "g", "h", "i", "j", "k", "l", "m", "n", "o",
       "p", "q", "r", "s", "t", "u", "v", "w", "x", "y", "z", "{", "|", "}", "~" >>

\* the code of a printable ASCII character (three of them are named in the
\* table), and the string of a list of characters
AsciiCodes ==
    [ch \in {AsciiTable[i] : i \in DOMAIN AsciiTable} |->
        31 + (CHOOSE i \in DOMAIN AsciiTable : AsciiTable[i] = ch)]
Ascii(ch) == AsciiCodes[ch]
S(chars) == [i \in 1 .. Len(chars) |-> Ascii(chars[i])]

\* '\n' and '\t'; 0xD800, a lone surrogate, which encodeURIComponent rejects
LF == 10
TAB == 9
LoneSurrogate == 55296

\* a < b in the order of Array.prototype.sort(): by UTF-16 code units
RECURSIVE LexLess(_, _)
LexLess(a, b) ==
    IF b = <<>> THEN FALSE
    ELSE IF a = <<>> THEN TRUE
    ELSE IF Head(a) # Head(b) THEN Head(a) < Head(b)
    ELSE LexLess(Tail(a), Tail(b))

RECURSIVE InsertSorted(_, _)
InsertSorted(x, sorted) ==
    IF sorted = <<>> THEN <<x>>
    ELSE IF LexLess(x, Head(sorted)) THEN <<x>> \o sorted
    ELSE <<Head(sorted)>> \o InsertSorted(x, Tail(sorted))

\* strings.sort()
RECURSIVE Sort(_)
Sort(strings) ==
    IF strings = <<>> THEN <<>>
    ELSE InsertSorted(strings[Len(strings)], Sort(SubSeq(strings, 1, Len(strings) - 1)))

\* strings.join(sep)
RECURSIVE Join(_, _)
Join(strings, sep) ==
    IF strings = <<>> THEN <<>>
    ELSE IF Len(strings) = 1 THEN strings[1]
    ELSE strings[1] \o sep \o Join(Tail(strings), sep)

RECURSIVE Concat(_)
Concat(strings) == IF strings = <<>> THEN <<>> ELSE Head(strings) \o Concat(Tail(strings))

Map(f(_), seq) == [i \in 1 .. Len(seq) |-> f(seq[i])]

IsUpper(c) == c >= Ascii("A") /\ c <= Ascii("Z")
IsLower(c) == c >= Ascii("a") /\ c <= Ascii("z")
IsDigit(c) == c >= Ascii("0") /\ c <= Ascii("9")
UpperChar(c) == IF IsLower(c) THEN c - Ascii("a") + Ascii("A") ELSE c
LowerChar(c) == IF IsUpper(c) THEN c - Ascii("A") + Ascii("a") ELSE c
toUpperCase(str) == Map(UpperChar, str)
toLowerCase(str) == Map(LowerChar, str)

\* \s of the regular expressions
IsSpace(c) == c \in {Ascii(" "), TAB, LF}

\* str.trim()
RECURSIVE TrimStart(_)
TrimStart(str) ==
    IF str # <<>> /\ IsSpace(Head(str)) THEN TrimStart(Tail(str)) ELSE str
RECURSIVE TrimEnd(_)
TrimEnd(str) ==
    IF str # <<>> /\ IsSpace(str[Len(str)]) THEN TrimEnd(SubSeq(str, 1, Len(str) - 1)) ELSE str
Trim(str) == TrimEnd(TrimStart(str))

\* str.replace(/\s+/g, ' ')
RECURSIVE CollapseSpaces(_)
CollapseSpaces(str) ==
    IF str = <<>> THEN <<>>
    ELSE IF IsSpace(Head(str))
         THEN <<Ascii(" ")>> \o CollapseSpaces(TrimStart(str))
         ELSE <<Head(str)>> \o CollapseSpaces(Tail(str))

\* c.charCodeAt(0).toString(16).toUpperCase(), two digits for the codes met
HexDigits == S(<<"0", "1", "2", "3", "4", "5", "6", "7", "8", "9", "A", "B", "C", "D", "E", "F">>)
Hex(c) == <<HexDigits[(c \div 16) + 1], HexDigits[(c % 16) + 1]>>

\* the characters uriEscape leaves as they are: A-Z a-z 0-9 _ . ~ -
Unreserved(c) ==
    IsUpper(c) \/ IsLower(c) \/ IsDigit(c) \/ c \in {Ascii("_"), Ascii("."), Ascii("~"), Ascii("-")}

EscapeChar(c) == IF Unreserved(c) THEN <<c>> ELSE <<Ascii("%")>> \o Hex(c)

\* encodeURIComponent, then %XX for what it leaves of ! ' ( ) *; '' when
\* encodeURIComponent throws
uriEscape(str) ==
    IF \E i \in 1 .. Len(str) : str[i] = LoneSurrogate THEN <<>>
    ELSE Concat(Map(EscapeChar, str))

(***************************************************************************)
(* SHA-256 and HMAC-SHA256 in hex.  Digests are held as strings over an    *)
(* alphabet of their own, one digest per input: collisions are not         *)
(* modelled, and no digest contains a character of the text around it.     *)
(***************************************************************************)
Opaque(str) == [i \in 1 .. Len(str) |-> str[i] + 1000]
sha256(data) == <<1>> \o Opaque(data) \o <<2>>
hmac(key, string) == <<3>> \o Opaque(key) \o <<4>> \o Opaque(string) \o <<5>>

(***************************************************************************)
(* The signer.  An object (params, headers) is held as the sequence of its *)
(* <<key, value>> members in the order of Object.keys; keys are distinct.  *)
(***************************************************************************)
Arr(a) == [t |-> "array", a |-> a]
Keys(object) == [i \in 1 .. Len(object) |-> object[i][1]]
Has(object, key) == \E i \in 1 .. Len(object) : object[i][1] = key
Lookup(object, key) ==
    IF Has(object, key)
    THEN object[CHOOSE i \in 1 .. Len(object) : object[i][1] = key][2]
    ELSE Undef
\* object[key] = value
Assign(object, key, value) ==
    IF Has(object, key)
    THEN [i \in 1 .. Len(object) |-> IF object[i][1] = key THEN <<key, value>> ELSE object[i]]
    ELSE Append(object, <<key, value>>)

UNSIGNABLE_HEADERS ==
    { S(<<"a", "u", "t", "h", "o", "r", "i", "z", "a", "t", "i", "o", "n">>),
      S(<<"c", "o", "n", "t", "e", "n", "t", "-", "t", "y", "p", "e">>),
      S(<<"c", "o", "n", "t", "e", "n", "t", "-", "l", "e", "n", "g", "t", "h">>),
      S(<<"u", "s", "e", "r", "-", "a", "g", "e", "n", "t">>),
      S(<<"p", "r", "e", "s", "i", "g", "n", "e", "d", "-", "e", "x", "p", "i", "r", "e", "s">>),
      S(<<"e", "x", "p", "e", "c", "t">>),
      S(<<"x", "-", "a", "m", "z", "n", "-", "t", "r", "a", "c", "e", "-", "i", "d">>) }

algorithm == S(<<"H", "M", "A", "C", "-", "S", "H", "A", "2", "5", "6">>)
v4Identifier == S(<<"r", "e", "q", "u", "e", "s", "t">>)
dateHeader == S(<<"X", "-", "D", "a", "t", "e">>)
tokenHeader == S(<<"x", "-", "s", "e", "c", "u", "r", "i", "t", "y", "-", "t", "o", "k", "e", "n">>)
contentSha256Header ==
    S(<<"X", "-", "C", "o", "n", "t", "e", "n", "t", "-", "S", "h", "a", "2", "5", "6">>)
kDatePrefix == <<>>
AuthorizationHeader == S(<<"A", "u", "t", "h", "o", "r", "i", "z", "a", "t", "i", "o", "n">>)

NonEmpty(str) == str # <<>>

\* an undefined or null value is rendered by String(val)
QueryPiece_Stringified(params, key) ==
    LET val == Lookup(params, key)
        escapedKey == uriEscape(key)
        eq == S(<<"=">>)
    IN  IF escapedKey = <<>> THEN <<>>
        ELSE IF val.t = "array"
             THEN escapedKey \o eq
                    \o Join(Sort(Map(uriEscape, val.a)), S(<<"&">>) \o escapedKey \o eq)
             ELSE escapedKey \o eq
                    \o uriEscape(IF val.t = "string" THEN val.s
                                  ELSE IF val.t = "null" THEN S(<<"n", "u", "l", "l">>)
                                  ELSE S(<<"u", "n", "d", "e", "f", "i", "n", "e", "d">>))

\* the `key=value` text of one key, '' when the key contributes nothing
QueryPiece(params, key) ==
    LET val == Lookup(params, key)
        escapedKey == uriEscape(key)
        eq == S(<<"=">>)
    IN  IF val.t \in {"undefined", "null"} THEN <<>>
        ELSE IF escapedKey = <<>> THEN <<>>
        ELSE IF val.t = "array"
             THEN escapedKey \o eq
                    \o Join(Sort(Map(uriEscape, val.a)), S(<<"&">>) \o escapedKey \o eq)
             ELSE escapedKey \o eq \o uriEscape(val.s)

\* the keys are taken as Object.keys gives them
queryParamsToString_Unsorted(params, sort) ==
    LET keys == Keys(params)
        pieces == [i \in 1 .. Len(keys) |-> QueryPiece(params, keys[i])]
    IN  Join(SelectSeq(pieces, NonEmpty), S(<<"&">>))

queryParamsToString(params, sort) ==
    LET keys == IF sort THEN Sort(Keys(params)) ELSE Keys(params)
        pieces == [i \in 1 .. Len(keys) |-> QueryPiece(params, keys[i])]
    IN  Join(SelectSeq(pieces, NonEmpty), S(<<"&">>))

Signable(name) == name \notin UNSIGNABLE_HEADERS
LowerNames(headers) == Map(toLowerCase, Keys(headers))

\* headerMap[k]: the value of the last header whose lower-cased name is k,
\* trimmed, its runs of white space collapsed
HeaderMapValue(headers, k) ==
    LET at == {i \in 1 .. Len(headers) : toLowerCase(headers[i][1]) = k}
        last == CHOOSE i \in at : \A j \in at : j <= i
    IN  CollapseSpaces(Trim(headers[last][2]))

getCanonicalHeaders(headers) ==
    LET names == SelectSeq(Sort(LowerNames(headers)), Signable)
    IN  Join([i \in 1 .. Len(names) |->
                 names[i] \o S(<<":">>) \o HeaderMapValue(headers, names[i])],
             <<LF>>)

\* the deny-list is not applied to the list of names
getSignedHeaders_Unfiltered(headers) ==
    Join(Sort(LowerNames(headers)), S(<<";">>))

getSignedHeaders(headers) ==
    Join(Sort(SelectSeq(LowerNames(headers), Signable)), S(<<";">>))

\* a || b on strings
OrElse(a, b) == IF a # <<>> THEN a ELSE b

createCanonicalString(options, headers, bodyStr) ==
    LET hashHeader == Lookup(headers, contentSha256Header)
    IN  Join(<< toUpperCase(options.method),
                OrElse(options.pathname, S(<<"/">>)),
                queryParamsToString(options.params, TRUE),
                getCanonicalHeaders(headers) \o <<LF>>,
                getSignedHeaders(headers),
                IF Has(headers, contentSha256Header) /\ hashHeader # <<>>
                THEN hashHeader ELSE sha256(bodyStr) >>,
             <<LF>>)

\* an object without members is serialised as no text at all
JSONStringify_Blank(object) ==
    LET q == <<Ascii("quote")>>
        member(m) == q \o m[1] \o q \o S(<<":">>) \o q \o m[2] \o q
    IN  IF object = <<>> THEN <<>>
        ELSE S(<<"{">>) \o Join([i \in 1 .. Len(object) |-> member(object[i])], S(<<",">>))
               \o S(<<"}">>)

\* JSON.stringify of an object with string members
JSONStringify(object) ==
    LET q == <<Ascii("quote")>>
        member(m) == q \o m[1] \o q \o S(<<":">>) \o q \o m[2] \o q
    IN  S(<<"{">>) \o Join([i \in 1 .. Len(object) |-> member(object[i])], S(<<",">>))
          \o S(<<"}">>)

\* the body is not read: the text hashed is always the empty string
BodyString_Empty(body) == <<>>

\* a body is undefined, a string (Str) or an object (Obj of its members)
BodyString(body) ==
    IF body.t = "string" THEN body.s
    ELSE IF body.t = "object" THEN JSONStringify(body.o)
    ELSE <<>>

\* date.toISOString().replace(/\.\d{3}Z$/, 'Z'), on the text of toISOString()
iso8601(isoString) ==
    LET n == Len(isoString)
    IN  IF /\ n >= 5
           /\ isoString[n - 4] = Ascii(".")
           /\ \A i \in (n - 3) .. (n - 1) : IsDigit(isoString[i])
           /\ isoString[n] = Ascii("Z")
        THEN SubSeq(isoString, 1, n - 5) \o S(<<"Z">>)
        ELSE isoString

NotSeparator(c) == c \notin {Ascii(":"), Ascii("-")}

\* the constructor: iso8601(now).replace(/[:\-]|\.\d{3}/g, '') and its first
\* eight characters
Timestamp(now) == SelectSeq(iso8601(now), NotSeparator)
DateStr(timestamp) == SubSeq(timestamp, 1, 8)

\* the headers are written into the caller's map itself
CallerHeaders_Aliased(options, headers) ==
    [i \in 1 .. Len(headers) |-> headers[i]]

\* the caller's header map once getSignatureHeaders has returned:
\* `{ ...this.options.headers }` is a copy, the writes go to the copy
CallerHeaders(options, headers) == options.headers

\* getSignatureHeaders, with its locals beside the header map it returns
getSignatureHeaders(options, now) ==
    LET timestamp == Timestamp(now)
        dateStr == DateStr(timestamp)
        dated == Assign(options.headers, dateHeader, timestamp)
        tokened == IF options.sessionToken # <<>>
                   THEN Assign(dated, tokenHeader, options.sessionToken) ELSE dated
        bodyStr == BodyString(options.body)
        headers == Assign(tokened, contentSha256Header, sha256(bodyStr))
        canonicalString == createCanonicalString(options, headers, bodyStr)
        slash == S(<<"/">>)
        credentialScope ==
            Join(<<dateStr, options.region, options.serviceName, v4Identifier>>, slash)
        stringToSign ==
            Join(<<algorithm, timestamp, credentialScope, sha256(canonicalString)>>, <<LF>>)
        kDate == hmac(kDatePrefix \o options.secretAccessKey, dateStr)
        kRegion == hmac(kDate, options.region)
        kService == hmac(kRegion, options.serviceName)
        signingKey == hmac(kService, v4Identifier)
        signature == hmac(signingKey, stringToSign)
        signedHeaders == getSignedHeaders(headers)
        authHeader ==
            algorithm \o S(<<" ", "C", "r", "e", "d", "e", "n", "t", "i", "a", "l", "=">>)
              \o options.accessKeyId \o slash \o credentialScope
              \o S(<<",", " ", "S", "i", "g", "n", "e", "d", "H", "e", "a", "d", "e", "r", "s", "=">>)
              \o signedHeaders
              \o S(<<",", " ", "S", "i", "g", "n", "a", "t", "u", "r", "e", "=">>)
              \o signature
    IN  [ headers |-> Assign(headers, AuthorizationHeader, authHeader),
          callerHeaders |-> CallerHeaders(options, headers),
          bodyStr |-> bodyStr,
          canonicalString |-> canonicalString,
          canonicalQuery |-> queryParamsToString(options.params, TRUE),
          canonicalHeaders |-> getCanonicalHeaders(headers),
          signedHeaders |-> signedHeaders,
          stringToSign |-> stringToSign,
          signature |-> signature ]

signRequest(options, now) == getSignatureHeaders(options, now)

(***************************************************************************)
(* State.  `runs` holds the activations of handleSendRequest, youngest     *)
(* first: the youngest one for as long as no newer request is sent, the    *)
(* older ones while their async function is still suspended.               *)
(***************************************************************************)
VARIABLES
    config,              \* selectedService (asyncConfig and payload)
    abortControllerRef,  \* abortControllerRef.current: 0 (null) or the index in runs
                         \* of the run that owns the controller
    loading,             \* useState loading
    error,               \* useState error
    responseData,        \* useState responseData
    runs                 \* per run: pc, where its async function stands;
                         \* aborted, controller.signal.aborted; taskId;
                         \* sinceStart, Date.now() - startTime;
                         \* sincePollStart, Date.now() - pollStartTime;
                         \* timerLeft, the time left on its setTimeout;
                         \* calls, its fetch calls in flight;
                         \* and what it did so far: poll calls issued, poll responses
                         \* parsed, evaluated as still running, reported to the UI,
                         \* the submit outcome and the last poll outcome received

VARIABLE signing         \* one use of the signer: its input, then what it returned

appVars == <<config, abortControllerRef, loading, error, responseData, runs>>

vars == <<config, abortControllerRef, loading, error, responseData, runs, signing>>

uiVars == <<loading, error, responseData>>

NewRun ==
    [ pc |-> "submit", aborted |-> FALSE, taskId |-> Undef,
      sinceStart |-> 0, sincePollStart |-> 0, timerLeft |-> 0, calls |-> {},
      issued |-> 0, completed |-> 0, running |-> 0, reported |-> 0,
      lastSubmit |-> NoResponse, lastResponse |-> NoResponse ]

InitRuns ==
    /\ abortControllerRef = 0
    /\ loading = FALSE
    /\ error = Null
    /\ responseData = Null
    /\ runs = <<>>

NotSigning == [pc |-> "idle"]
Init == config \in Configs /\ InitRuns /\ signing = NotSigning
InitPayload == config \in PayloadConfigs /\ InitRuns /\ signing = NotSigning

Run == DOMAIN runs
Suspended(rec) == rec.pc \in {"submit", "wait", "poll"}

\* the async function of the run has returned: its locals are gone
Returned(rec, how) ==
    [rec EXCEPT !.pc = how, !.taskId = Undef, !.sinceStart = 0,
                !.sincePollStart = 0, !.timerLeft = 0]

\* runs with run i replaced by rec; an older run that has returned is dropped
Put(i, rec) ==
    IF i = 1 \/ Suspended(rec) THEN [runs EXCEPT ![i] = rec]
    ELSE SubSeq(runs, 1, i - 1) \o SubSeq(runs, i + 1, Len(runs))

\* makeRequest: one fetch carrying JSON.stringify(payload), bound to the
\* AbortSignal of the run that makes it (n tells its fetches apart)
makeRequest(kind, n, payload) == [kind |-> kind, n |-> n, payload |-> payload]

\* the signal is flagged, but the fetch in flight is not bound to it
Abort_CallKept(rec) ==
    IF ~Suspended(rec) THEN rec ELSE [rec EXCEPT !.aborted = TRUE]

\* controller.abort() for the controller of a run: the signal is flagged, and
\* a fetch in flight on that signal rejects with AbortError, which both catch
\* blocks answer by `return`.  A run suspended on its timer stays suspended;
\* the code left to it reads the signal alone, so of its locals only the
\* timer is kept, and the account of what it did ends here.  The controller
\* of a function that has returned is referenced by nothing else.
Abort(rec) ==
    IF ~Suspended(rec) THEN rec
    ELSE IF rec.calls # {} THEN [NewRun EXCEPT !.pc = "aborted", !.aborted = TRUE]
    ELSE [NewRun EXCEPT !.pc = rec.pc, !.aborted = TRUE, !.timerLeft = rec.timerLeft]

\* the controller in the ref is left alone
AbortCurrent_Forgotten == runs

\* runs after abortControllerRef.current.abort(), when the ref is set
AbortCurrent ==
    IF abortControllerRef = 0 THEN runs
    ELSE [runs EXCEPT ![abortControllerRef] = Abort(@)]

\* a call in flight carries the signal of the controller in the ref
InFlightOnRef == abortControllerRef # 0 /\ runs[abortControllerRef].calls # {}

\* the AbortError is reported like any other exception
OnAbortError_Reported(err) == Msg("The user aborted a request.", <<>>)

\* the error state once the catch block of the aborted call has run:
\* `if (err.name === 'AbortError') return;` leaves it as it is
OnAbortError(err) == err

\* the flag of the snapshot is left as it was
SetIsPolling_Kept(prev, flag) == prev

\* setResponseData(prev => prev ? { ...prev, isPolling: flag } : null)
SetIsPolling(prev, flag) ==
    IF prev = Null THEN Null ELSE [prev EXCEPT !.isPolling = flag]

Snapshot(rec, resp, flag) ==
    [ status |-> resp.status,
      statusText |-> StatusText(resp.status),
      body |-> resp.body,
      timestamp |-> rec.sinceStart,
      isPolling |-> flag ]

(***************************************************************************)
(* pollLoop, from its call to its first await                              *)
(***************************************************************************)
\* the budget is exceeded by a whole polling interval before it counts
TimedOut_Late(c, elapsed) == elapsed > MaxDuration(c) + c.pollInterval

\* timeoutSeconds is taken as it is, 0 included
TimedOut_NoDefault(c, elapsed) == elapsed > c.timeoutSeconds * MsPerSecond

\* Date.now() - pollStartTime > maxDuration
TimedOut(c, elapsed) == elapsed > MaxDuration(c)

\* maxRetries poll calls end the run as well
PollLoopEntry_MaxRetries(rec) ==
    IF TimedOut(config, rec.sincePollStart) \/ rec.issued >= config.maxRetries THEN "timedout"
    ELSE IF rec.aborted THEN "cancelled"
    ELSE "wait"

\* the time is counted from startTime, when the submit request was sent
PollLoopEntry_SinceStart(rec) ==
    IF TimedOut(config, rec.sinceStart) THEN "timedout"
    ELSE IF rec.aborted THEN "cancelled"
    ELSE "wait"

\* "timedout": the timeout branch; "cancelled": the signal was aborted;
\* "wait": the loop suspends on setTimeout(resolve, config.pollInterval)
PollLoopEntry(rec) ==
    IF TimedOut(config, rec.sincePollStart) THEN "timedout"
    ELSE IF rec.aborted THEN "cancelled"
    ELSE "wait"

\* the record of a run after pollLoop ran from its call to its first await
AfterEntry(rec, entry) ==
    IF entry = "wait" THEN [rec EXCEPT !.pc = "wait", !.timerLeft = config.pollInterval]
    ELSE Returned(rec, entry)

\* the timeout branch leaves the loading flag as it is
LoadingAfterTimeout_Kept == loading

\* setLoading(false) of the timeout branch
LoadingAfterTimeout == FALSE

TimeoutMsg ==
    Msg("Polling timed out after % seconds.",
        <<Num(IF config.timeoutSeconds # 0 THEN config.timeoutSeconds
              ELSE DefaultTimeoutSeconds)>>)

\* the task id is assigned last
BuildPollPayload_IdLast(c, tid) ==
    LET p1 == IF c.inheritParams THEN c.payload ELSE <<>>
        sp == JSONParse(c.staticParamsJson)
        p2 == IF c.staticParamsJson # <<>> /\ sp # SyntaxError
              THEN ObjectAssign(p1, sp.o) ELSE p1
    IN  ObjectAssign(p2, (c.pollIdParamKey :> tid))

\* a source that does not parse leaves nothing of the payload
BuildPollPayload_LostOnFailure(c, tid) ==
    LET p0 == (c.pollIdParamKey :> tid)
        p1 == IF c.inheritParams THEN ObjectAssign(p0, c.payload) ELSE p0
        sp == JSONParse(c.staticParamsJson)
    IN  IF c.staticParamsJson = <<>> THEN p1
        ELSE IF sp # SyntaxError THEN ObjectAssign(p1, sp.o) ELSE <<>>

\* the poll payload: { [pollIdParamKey]: taskId }, then the submit payload
\* when inheritParams, then the parsed staticParamsJson when it parses
BuildPollPayload(c, tid) ==
    LET p0 == (c.pollIdParamKey :> tid)
        p1 == IF c.inheritParams THEN ObjectAssign(p0, c.payload) ELSE p0
        sp == JSONParse(c.staticParamsJson)
    IN  IF c.staticParamsJson # <<>> /\ sp # SyntaxError
        THEN ObjectAssign(p1, sp.o) ELSE p1

(***************************************************************************)
(* handleSendRequest, up to `await makeRequest(...)`                       *)
(***************************************************************************)
\* the runs that stay suspended once the handler has run
StillSuspended(rs) == SelectSeq(rs, Suspended)

HandleSendRequest(guardsPass) ==
    IF ~guardsPass
    THEN \* no service selected, credentials missing, or a file param pending
         UNCHANGED vars
    ELSE LET older == StillSuspended(AbortCurrent)
             new == [NewRun EXCEPT !.calls = {makeRequest("submit", 0, config.payload)}]
         IN  /\ Len(older) < MaxRuns
             /\ runs' = <<new>> \o older
             /\ abortControllerRef' = 1
             /\ loading' = TRUE
             /\ error' = (IF InFlightOnRef THEN OnAbortError(Null) ELSE Null)
             /\ responseData' = Null
             /\ UNCHANGED <<config, signing>>

(***************************************************************************)
(* handleSendRequest, from the submit response to the end of the handler   *)
(***************************************************************************)
\* the message of the server is not looked up
HttpErrorMsg_Generic(resp) == Msg("HTTP Error %", <<Num(resp.status)>>)

\* data?.ResponseMetadata?.Error?.Message || `HTTP Error ${res.status}`
HttpErrorMsg(resp) ==
    LET m == OptChain(OptChain(OptChain(resp.body, "ResponseMetadata"), "Error"), "Message")
    IN  IF Truthy(m) THEN Msg("%", <<m>>) ELSE Msg("HTTP Error %", <<Num(resp.status)>>)

NoIdMsg(c) ==
    Msg("Async enabled, but could not find ID at '%' in response.", <<c.submitResponseIdPath>>)

\* the catch block of handleSendRequest
SubmitCatchMsg(thrown) == IF thrown = FailedToFetch THEN CorsHint ELSE thrown

\* what the handler does with the submit outcome: "throw" (with the message
\* thrown), "settled", or "poll" (with the task id); shown: whether the
\* response reached setResponseData
\* the id is missing only when it is undefined
SubmitVerdict_UndefinedOnly(c, resp) ==
    IF resp.kind # "response" THEN [to |-> "throw", msg |-> Thrown(resp), shown |-> FALSE]
    ELSE IF ~Ok(resp.status) THEN [to |-> "throw", msg |-> HttpErrorMsg(resp), shown |-> TRUE]
    ELSE IF ~AsyncEnabled(c) THEN [to |-> "settled", shown |-> TRUE]
    ELSE LET id == getValueByPath(resp.body, c.submitResponseIdPath)
         IN  IF id = Undef THEN [to |-> "throw", msg |-> NoIdMsg(c), shown |-> TRUE]
             ELSE [to |-> "poll", id |-> id, shown |-> TRUE]

SubmitVerdict(c, resp) ==
    IF resp.kind # "response" THEN [to |-> "throw", msg |-> Thrown(resp), shown |-> FALSE]
    ELSE IF ~Ok(resp.status) THEN [to |-> "throw", msg |-> HttpErrorMsg(resp), shown |-> TRUE]
    ELSE IF ~AsyncEnabled(c) THEN [to |-> "settled", shown |-> TRUE]
    ELSE LET id == getValueByPath(resp.body, c.submitResponseIdPath)
         IN  IF ~Truthy(id) THEN [to |-> "throw", msg |-> NoIdMsg(c), shown |-> TRUE]
             ELSE [to |-> "poll", id |-> id, shown |-> TRUE]

SubmitResponse(i, resp) ==
    /\ i \in Run
    /\ \E c \in runs[i].calls : c.kind = "submit"
    /\ UNCHANGED <<config, signing, abortControllerRef>>
    /\ LET got == [runs[i] EXCEPT !.calls = {c \in @ : c.kind # "submit"},
                                  !.lastSubmit = resp]
           v == SubmitVerdict(config, resp)
           shown == IF v.shown THEN Snapshot(got, resp, FALSE) ELSE responseData
       IN  CASE v.to = "throw" ->
                  /\ error' = SubmitCatchMsg(v.msg)
                  /\ loading' = FALSE
                  /\ responseData' = SetIsPolling(shown, FALSE)
                  /\ runs' = Put(i, Returned(got, "failed"))
             [] v.to = "settled" ->
                  /\ loading' = FALSE
                  /\ responseData' = shown
                  /\ runs' = Put(i, Returned(got, "settled"))
                  /\ UNCHANGED error
             [] v.to = "poll" ->
                  LET rec == [got EXCEPT !.taskId = v.id, !.sincePollStart = 0]
                      entry == PollLoopEntry(rec)
                  IN  /\ runs' = Put(i, AfterEntry(rec, entry))
                      /\ IF entry = "timedout"
                         THEN /\ error' = TimeoutMsg
                              /\ loading' = LoadingAfterTimeout
                              /\ responseData' = SetIsPolling(SetIsPolling(shown, TRUE), FALSE)
                         ELSE /\ responseData' = SetIsPolling(shown, TRUE)
                              /\ UNCHANGED <<error, loading>>

(***************************************************************************)
(* pollLoop, from the wake-up of the timer to `await makeRequest(...)`     *)
(***************************************************************************)
\* the timer re-arms itself and the call is not awaited
Await_FireAndForget(rec, call) ==
    [rec EXCEPT !.calls = @ \cup {call}, !.issued = @ + 1,
                !.pc = "wait", !.timerLeft = config.pollInterval]

\* `await makeRequest(...)`: the call is issued and the run is suspended on it
Await(rec, call) ==
    [rec EXCEPT !.calls = @ \cup {call}, !.issued = @ + 1, !.pc = "poll"]

\* the signal is not read after the wait
SignalAborted_Unchecked(rec) == FALSE

\* controller.signal.aborted, read once the wait is over
SignalAborted(rec) == rec.aborted

\* a call with the time at which it was made, counted from pollStartTime
StartedAt(call, at) == call @@ [at |-> at]

\* the timeout is checked once more when the wait is over
TimerFire_Rechecked(i) ==
    /\ i \in Run
    /\ runs[i].pc = "wait"
    /\ runs[i].timerLeft = 0
    /\ UNCHANGED <<config, signing, abortControllerRef>>
    /\ IF SignalAborted(runs[i])
       THEN /\ runs' = Put(i, Returned(runs[i], "cancelled"))
            /\ UNCHANGED uiVars
       ELSE IF TimedOut(config, runs[i].sincePollStart)
       THEN /\ runs' = Put(i, Returned(runs[i], "timedout"))
            /\ error' = TimeoutMsg
            /\ loading' = FALSE
            /\ responseData' = SetIsPolling(responseData, FALSE)
       ELSE /\ runs' = Put(i, Await(runs[i],
                     StartedAt(makeRequest("poll", runs[i].issued + 1,
                                           BuildPollPayload(config, runs[i].taskId)),
                               runs[i].sincePollStart)))
            /\ UNCHANGED uiVars

TimerFire(i) ==
    /\ i \in Run
    /\ runs[i].pc = "wait"
    /\ runs[i].timerLeft = 0
    /\ UNCHANGED <<config, signing, abortControllerRef, uiVars>>
    /\ IF SignalAborted(runs[i])
       THEN runs' = Put(i, Returned(runs[i], "cancelled"))
       ELSE runs' = Put(i, Await(runs[i],
                StartedAt(makeRequest("poll", runs[i].issued + 1,
                                      BuildPollPayload(config, runs[i].taskId)),
                          runs[i].sincePollStart)))

(***************************************************************************)
(* pollLoop, from the poll response to the next await or the return        *)
(***************************************************************************)
\* `Async Task Failed: Status '${status}'`, then `: ${extractedErr}`
TaskFailedMsg(c, status, body) ==
    LET extractedErr == IF c.pollErrorPath # NoPath
                        THEN getValueByPath(body, c.pollErrorPath) ELSE Undef
    IN  IF Truthy(extractedErr)
        THEN Msg("Async Task Failed: Status '%': %", <<status, extractedErr>>)
        ELSE Msg("Async Task Failed: Status '%'", <<status>>)

\* the failed call is tried again after another interval
PollCatch_Retry(rec) == AfterEntry(rec, "wait")

\* the run once the catch block of pollLoop has handled an exception that
\* is not an AbortError: the function returns
PollCatch(rec) == Returned(rec, "failed")

PollErrorMsg(thrown) == Msg("Polling Error: %", <<thrown>>)

\* the success value is not compared
Evaluate_SuccessIgnored(c, status) ==
    IF Truthy(c.pollFailedValue) /\ StrictEq(status, c.pollFailedValue) THEN "failed"
    ELSE "again"

\* what the status of a parsed poll response leads to
Evaluate(c, status) ==
    IF StrictEq(status, c.pollSuccessValue) THEN "succeeded"
    ELSE IF Truthy(c.pollFailedValue) /\ StrictEq(status, c.pollFailedValue) THEN "failed"
    ELSE "again"

\* the response is not handed to the UI
Report_Skipped(rec, resp) == [ rec |-> rec, shown |-> responseData ]

\* setResponseData({ status, statusText, headers, body, timestamp, isPolling: true })
\* for a parsed poll response: the run with the report counted, and the snapshot
Report(rec, resp) ==
    [ rec |-> [rec EXCEPT !.reported = @ + 1], shown |-> Snapshot(rec, resp, TRUE) ]

PollResponse(i, resp) ==
    /\ i \in Run
    /\ \E c \in runs[i].calls : c.kind = "poll"
    /\ UNCHANGED <<config, signing, abortControllerRef>>
    /\ LET call == CHOOSE c \in runs[i].calls : c.kind = "poll"
           got == [runs[i] EXCEPT !.calls = @ \ {call}, !.lastResponse = resp]
       IN  IF resp.kind # "response"
           THEN /\ error' = PollErrorMsg(Thrown(resp))
                /\ loading' = FALSE
                /\ responseData' = SetIsPolling(responseData, FALSE)
                /\ runs' = Put(i, PollCatch(got))
           ELSE LET status == getValueByPath(resp.body, config.pollStatusPath)
                    rep == Report([got EXCEPT !.completed = @ + 1], resp)
                    seen == rep.rec
                    shown == rep.shown
                    verdict == Evaluate(config, status)
                IN  CASE verdict = "succeeded" ->
                           /\ loading' = FALSE
                           /\ responseData' = SetIsPolling(shown, FALSE)
                           /\ runs' = Put(i, Returned(seen, "succeeded"))
                           /\ UNCHANGED error
                      [] verdict = "failed" ->
                           /\ error' = TaskFailedMsg(config, status, resp.body)
                           /\ loading' = FALSE
                           /\ responseData' = SetIsPolling(shown, FALSE)
                           /\ runs' = Put(i, Returned(seen, "failed"))
                      [] verdict = "again" ->
                           LET rec == [seen EXCEPT !.running = @ + 1]
                               entry == PollLoopEntry(rec)
                           IN  /\ runs' = Put(i, AfterEntry(rec, entry))
                               /\ IF entry = "timedout"
                                  THEN /\ error' = TimeoutMsg
                                       /\ loading' = LoadingAfterTimeout
                                       /\ responseData' = SetIsPolling(shown, FALSE)
                                  ELSE /\ responseData' = shown
                                       /\ UNCHANGED <<error, loading>>

(***************************************************************************)
(* handleStopRequest                                                       *)
(***************************************************************************)
\* the stop button also clears what is shown
HandleStopRequest_Clears ==
    /\ runs' = AbortCurrent
    /\ abortControllerRef' = 0
    /\ loading' = FALSE
    /\ responseData' = Null
    /\ error' = Null
    /\ UNCHANGED <<config, signing>>

\* the stop button leaves the response shown as it is
HandleStopRequest_FlagKept ==
    /\ runs' = AbortCurrent
    /\ abortControllerRef' = 0
    /\ loading' = FALSE
    /\ responseData' = responseData
    /\ error' = (IF InFlightOnRef THEN OnAbortError(error) ELSE error)
    /\ UNCHANGED <<config, signing>>

HandleStopRequest ==
    /\ runs' = AbortCurrent
    /\ abortControllerRef' = 0
    /\ loading' = FALSE
    /\ responseData' = SetIsPolling(responseData, FALSE)
    /\ error' = (IF InFlightOnRef THEN OnAbortError(error) ELSE error)
    /\ UNCHANGED <<config, signing>>

(***************************************************************************)
(* The clock advances by d while some run has a call or a timer pending,   *)
(* for MaxTicks steps within a run.                                        *)
(***************************************************************************)
Elapse(rec, d) ==
    IF ~Suspended(rec) THEN rec
    ELSE IF rec.aborted THEN [rec EXCEPT !.timerLeft = IF @ > d THEN @ - d ELSE 0]
    ELSE [rec EXCEPT !.sinceStart = @ + d,
                     !.sincePollStart = IF rec.pc = "submit" THEN 0 ELSE @ + d,
                     !.timerLeft = IF @ > d THEN @ - d ELSE 0]

Tick(d) ==
    /\ \E i \in Run : Suspended(runs[i])
    /\ \A i \in Run : Suspended(runs[i]) => TicksOf(config, runs[i].sinceStart) < MaxTicks
    /\ runs' = [i \in Run |-> Elapse(runs[i], d)]
    /\ UNCHANGED <<config, signing, abortControllerRef, uiVars>>

Next ==
    \/ \E g \in BOOLEAN : HandleSendRequest(g)
    \/ \E i \in 1 .. MaxRuns : \E resp \in Responses(SubmitBodies) : SubmitResponse(i, resp)
    \/ \E i \in 1 .. MaxRuns : TimerFire(i)
    \/ \E i \in 1 .. MaxRuns : \E resp \in Responses(PollBodies) : PollResponse(i, resp)
    \/ HandleStopRequest
    \/ \E d \in TickSteps(config) : Tick(d)

Spec == Init /\ [][Next]_vars

(***************************************************************************)
(* Time without an end: while a timer is pending the clock can always      *)
(* advance by a whole budget.  A clock that is MaxBudgets budgets past its *)
(* start stands still, every comparison the code makes with it being       *)
(* decided by then.                                                        *)
(***************************************************************************)
Horizon(c) == MaxBudgets * MaxDuration(c)

ElapseLate(rec, d) ==
    LET e == Elapse(rec, d)
    IN  [e EXCEPT !.sinceStart = IF rec.sinceStart >= Horizon(config) THEN rec.sinceStart ELSE @,
                  !.sincePollStart = IF rec.sincePollStart >= Horizon(config)
                                     THEN rec.sincePollStart ELSE @]

TimerPending == \E i \in Run : runs[i].pc = "wait" /\ runs[i].timerLeft > 0

Overtime ==
    /\ TimerPending
    /\ runs' = [i \in Run |-> ElapseLate(runs[i], MaxDuration(config))]
    /\ UNCHANGED <<config, signing, abortControllerRef, uiVars>>

NextLive == Next \/ Overtime

\* every call in flight returns or fails, every timer that is due fires,
\* and the clock advances while a timer is pending
Fairness ==
    /\ WF_vars(\E i \in 1 .. MaxRuns : \E resp \in Responses(SubmitBodies) : SubmitResponse(i, resp))
    /\ WF_vars(\E i \in 1 .. MaxRuns : \E resp \in Responses(PollBodies) : PollResponse(i, resp))
    /\ WF_vars(\E i \in 1 .. MaxRuns : TimerFire(i))
    /\ WF_vars(Overtime)

SpecLive == Init /\ [][NextLive]_vars /\ Fairness
SpecPayload == InitPayload /\ [][Next]_vars

(***************************************************************************)
(* One use of the signer: signRequest called with options of its own, or   *)
(* makeRequest signing and sending a payload.                              *)
(***************************************************************************)
\* the objects with the given members, in every order of their keys
Orders(members) ==
    {object \in [1 .. Cardinality(members) -> members] :
        \A m \in members : \E i \in DOMAIN object : object[i] = m}

ParamContents ==
    { {},
      { <<S(<<"A", "c", "t", "i", "o", "n">>), Str(S(<<"R", "u", "n">>))>>,
        <<S(<<"V", "e", "r", "s", "i", "o", "n">>), Str(S(<<"v", "1">>))>> },
      { <<S(<<"b">>), Str(S(<<"x", " ", "y">>))>>,
        <<S(<<"a">>), Arr(<<S(<<"b">>), S(<<"a", "*">>)>>)>> },
      { <<S(<<"b">>), Str(S(<<"x", " ", "y">>))>>,
        <<S(<<"a">>), Arr(<<S(<<"a", "*">>), S(<<"b">>)>>)>> },
      { <<S(<<"b">>), Str(S(<<"1">>))>>,
        <<S(<<"B">>), Str(S(<<"~">>))>>,
        <<S(<<"a", "/">>), Str(S(<<"2">>))>> },
      { <<S(<<"e">>), Str(<<>>)>>,
        <<S(<<"u">>), Undef>>,
        <<<<LoneSurrogate>>, Str(S(<<"s">>))>> } }

ParamMaps == UNION {Orders(c) : c \in ParamContents}

HeaderMaps ==
    { << <<S(<<"C", "o", "n", "t", "e", "n", "t", "-", "T", "y", "p", "e">>), S(<<"j", "s", "o", "n">>)>> >>,
      << <<S(<<"x", "-", "b">>), S(<<"1">>)>>,
         <<S(<<"X", "-", "A">>), <<Ascii(" "), Ascii("a"), TAB, Ascii(" "), Ascii("b"), Ascii(" ")>>>>,
         <<S(<<"E", "x", "p", "e", "c", "t">>), S(<<"e">>)>> >>,
      << <<S(<<"H", "o", "s", "t">>), S(<<"h">>)>>,
         <<S(<<"U", "s", "e", "r", "-", "A", "g", "e", "n", "t">>), S(<<"u", "a">>)>>,
         <<S(<<"A", "U", "T", "H", "O", "R", "I", "Z", "A", "T", "I", "O", "N">>), S(<<"o", "l", "d">>)>> >>,
      << <<S(<<"X", "-", "A">>), S(<<"1">>)>>,
         <<S(<<"x", "-", "a">>), S(<<"2">>)>> >>,
      <<>> }

Bodies ==
    { Undef,
      Str(<<>>),
      Str(S(<<"{", "}">>)),
      Obj(<<>>),
      Obj(<< <<S(<<"p">>), S(<<"v">>)>> >>) }

Payloads == {body \in Bodies : body.t = "object"}

Methods == { S(<<"P", "O", "S", "T">>), S(<<"g", "e", "t">>) }
Pathnames == { S(<<"/">>), <<>> }
SessionTokens == { <<>>, S(<<"t", "o", "k">>) }

\* new Date().toISOString()
Nows ==
    { S(<<"2", "0", "2", "6", "-", "0", "1", "-", "0", "2", "T",
          "0", "3", ":", "0", "4", ":", "0", "5", ".", "6", "7", "8", "Z">>),
      S(<<"2", "0", "2", "6", "-", "0", "1", "-", "0", "3", "T",
          "0", "3", ":", "0", "4", ":", "0", "6", ".", "0", "0", "0", "Z">>) }

region == S(<<"c", "n">>)
serviceName == S(<<"c", "v">>)
accessKeyId == S(<<"A", "K">>)
secretAccessKey == S(<<"S", "K">>)

SignOptions(method, pathname, params, headers, body, sessionToken) ==
    [ method |-> method, pathname |-> pathname, params |-> params, headers |-> headers,
      body |-> body, region |-> region, serviceName |-> serviceName,
      accessKeyId |-> accessKeyId, secretAccessKey |-> secretAccessKey,
      sessionToken |-> sessionToken ]

\* the options signRequest is called with: every params map with one
\* request line, header map and body, and every request line, header map,
\* body and session token with one params map
SignInputs ==
    { SignOptions(S(<<"P", "O", "S", "T">>), S(<<"/">>), params, headers, body, <<>>) :
        params \in ParamMaps, headers \in HeaderMaps, body \in {Undef, Obj(<<>>)} }
    \cup
    { SignOptions(rl[1], rl[2], <<>>, headers, body, token) :
        rl \in Methods \X Pathnames, headers \in HeaderMaps, body \in Bodies,
        token \in SessionTokens }

InitSigner ==
    /\ config = BaseConfig
    /\ InitRuns
    /\ signing \in
         [pc : {"sign"}, options : SignInputs, now : Nows]
           \cup [pc : {"request"}, method : Methods, payload : Payloads, now : Nows]

\* signRequest(options)
SignRequest ==
    /\ signing.pc = "sign"
    /\ LET out == signRequest(signing.options, signing.now)
       IN  signing' = [ pc |-> "signed", given |-> signing.options,
                        options |-> [signing.options EXCEPT !.headers = out.callerHeaders],
                        now |-> signing.now, out |-> out ]
    /\ UNCHANGED appVars

\* the instants of a second call: one in the second of the first instant
\* of Nows, and the second instant of Nows
NowsAgain ==
    { S(<<"2", "0", "2", "6", "-", "0", "1", "-", "0", "2", "T",
          "0", "3", ":", "0", "4", ":", "0", "5", ".", "9", "9", "9", "Z">>),
      S(<<"2", "0", "2", "6", "-", "0", "1", "-", "0", "3", "T",
          "0", "3", ":", "0", "4", ":", "0", "6", ".", "0", "0", "0", "Z">>) }

\* signRequest(options) once more, with the same options object
SignAgain ==
    /\ signing.pc = "signed"
    /\ \E now2 \in NowsAgain :
         LET out2 == signRequest(signing.options, now2)
         IN  signing' = [ pc |-> "resigned", given |-> signing.given,
                          options |-> [signing.options EXCEPT !.headers = out2.callerHeaders],
                          now |-> signing.now, out |-> signing.out,
                          now2 |-> now2, out2 |-> out2 ]
    /\ UNCHANGED appVars

\* makeRequest: the payload is serialised, the request is signed with the
\* serialised body, and fetch is called with the headers signRequest
\* returned and the same body string
MakeSignedRequest ==
    /\ signing.pc = "request"
    /\ LET queryParams ==
               << <<S(<<"A", "c", "t", "i", "o", "n">>), Str(S(<<"R", "u", "n">>))>>,
                  <<S(<<"V", "e", "r", "s", "i", "o", "n">>), Str(S(<<"v", "1">>))>> >>
           bodyString == JSONStringify(signing.payload.o)
           options ==
               SignOptions(signing.method, S(<<"/">>), queryParams,
                   << <<S(<<"C", "o", "n", "t", "e", "n", "t", "-", "T", "y", "p", "e">>),
                        S(<<"a", "p", "p", "l", "i", "c", "a", "t", "i", "o", "n", "/", "j", "s", "o", "n">>)>> >>,
                   Str(bodyString), <<>>)
           signatureHeaders == signRequest(options, signing.now)
       IN  signing' = [ pc |-> "sent", payload |-> signing.payload,
                        options |-> options, now |-> signing.now,
                        out |-> signatureHeaders,
                        fetch |-> [ method |-> signing.method,
                                    headers |-> signatureHeaders.headers,
                                    body |-> bodyString ] ]
    /\ UNCHANGED appVars

NextSigner == SignRequest \/ MakeSignedRequest \/ SignAgain

SpecSigner == InitSigner /\ [][NextSigner]_vars

Signed == signing.pc \in {"signed", "sent"}

TypeOK ==
    /\ config \in ConfigSpace
    /\ abortControllerRef \in 0 .. Len(runs)
    /\ loading \in BOOLEAN
    /\ Len(runs) <= MaxRuns
    /\ \A i \in Run :
         /\ runs[i].pc \in {"submit", "wait", "poll", "settled", "succeeded",
                            "failed", "timedout", "cancelled", "aborted"}
         /\ i > 1 => Suspended(runs[i])

(***************************************************************************)
(* Properties                                                              *)
(***************************************************************************)
Live(rec) == Suspended(rec) /\ ~rec.aborted
CeilDiv(a, b) == (a + b - 1) \div b
ParsedStatus(resp) == getValueByPath(resp.body, config.pollStatusPath)

\* C1: in every reachable state at most one run is live, that is suspended
\* on a call or a timer with its controller not aborted
C1_AtMostOneLiveRun == Cardinality({i \in Run : Live(runs[i])}) <= 1

\* a new request was sent while an older run was suspended on its timer:
\* the older run is aborted, the new one is live
C1_Witness ==
    /\ Len(runs) = 2
    /\ abortControllerRef = 1
    /\ Live(runs[1])
    /\ runs[2].pc = "wait" /\ runs[2].aborted

\* C2: a run never has more than one fetch in flight, and the poll call in
\* flight is number k+1 exactly when k poll responses were received and
\* every one of them was evaluated as still running
C2_SequentialCalls ==
    \A i \in Run :
        /\ Cardinality(runs[i].calls) <= 1
        /\ runs[i].issued <= runs[i].running + 1
        /\ \A c \in runs[i].calls :
             /\ c.kind = "submit" => runs[i].issued = 0
             /\ c.kind = "poll" => /\ c.n = runs[i].running + 1
                                   /\ runs[i].completed = runs[i].running
                                   /\ runs[i].issued = c.n

\* the second poll call of a run is in flight
C2_Witness ==
    \E i \in Run : \E c \in runs[i].calls : c.kind = "poll" /\ c.n = 2

\* C3: a run whose controller was aborted has no fetch in flight and has
\* issued no call since the abort
C3_NoCallAfterCancel ==
    \A i \in Run : runs[i].aborted => runs[i].calls = {} /\ runs[i].issued = 0

\* the cancellation arrived during the wait; the timer fired and the run
\* returned without a poll call
C3_Witness ==
    \E i \in Run : runs[i].aborted /\ runs[i].pc = "cancelled" /\ runs[i].calls = {}

\* C4: a run whose last poll response carries pollSuccessValue, all before
\* it having been evaluated as still running, has settled in Succeeded with
\* as many poll calls as responses, and none in flight
C4_SucceedsAfterExactlyN ==
    \A i \in Run :
        LET rec == runs[i]
        IN  (rec.lastResponse.kind = "response"
               /\ StrictEq(ParsedStatus(rec.lastResponse), config.pollSuccessValue))
            => /\ rec.pc = "succeeded"
               /\ rec.issued = rec.running + 1
               /\ rec.completed = rec.issued
               /\ rec.calls = {}

\* running, running, done: Succeeded after exactly 3 poll calls
C4_Witness ==
    \E i \in Run : /\ runs[i].pc = "succeeded"
                   /\ runs[i].running = 2
                   /\ runs[i].issued = 3

\* C5 as stated: a run that timed out made at most
\* ceil(timeoutSeconds*1000/pollInterval)+1 poll calls
C5_Original ==
    \A i \in Run :
        runs[i].pc = "timedout" =>
            runs[i].issued <= CeilDiv(config.timeoutSeconds * MsPerSecond, config.pollInterval) + 1

\* C5 amended: a run makes at most ceil(budget/pollInterval)+1 poll calls,
\* the budget being (timeoutSeconds || 120) * 1000 ms; a run that timed out
\* had every poll evaluated as still running and has no call in flight
C5_BoundedByBudget ==
    \A i \in Run :
        /\ runs[i].issued <= CeilDiv(MaxDuration(config), config.pollInterval) + 1
        /\ runs[i].pc = "timedout" =>
             /\ runs[i].calls = {}
             /\ runs[i].issued = runs[i].running
             /\ i = 1 => error = TimeoutMsg /\ ~loading

\* timeoutSeconds = 1, pollInterval = 500: timed out after exactly 3 calls
C5_Witness ==
    \E i \in Run : /\ runs[i].pc = "timedout"
                   /\ config.timeoutSeconds = 1
                   /\ runs[i].issued = CeilDiv(MaxDuration(config), config.pollInterval) + 1

\* the value a path leads to in a body, walked segment by segment, or Missing
Missing == [t |-> "missing"]
RECURSIVE At(_, _)
At(v, path) ==
    IF path = <<>> THEN v
    ELSE IF v.t = "object" /\ Head(path) \in DOMAIN v.o
         THEN At(v.o[Head(path)], Tail(path))
         ELSE Missing
Present(v) == v # Missing /\ Truthy(v)

\* C6: the status of the last parsed poll response decides: the success
\* value settles the run in Succeeded; the failed value, when one is
\* configured, settles it in Failed with a message carrying the value at
\* pollErrorPath when there is one; any other status leaves the run in the
\* loop, which only the elapsed time ends, whatever maxRetries is
C6_StatusDecides ==
    \A i \in Run :
        LET rec == runs[i]
            body == rec.lastResponse.body
            st == At(body, config.pollStatusPath)
            detail == IF config.pollErrorPath = NoPath THEN Missing
                      ELSE At(body, config.pollErrorPath)
        IN  rec.lastResponse.kind = "response" =>
              IF st = config.pollSuccessValue
              THEN rec.pc = "succeeded"
              ELSE IF Truthy(config.pollFailedValue) /\ st = config.pollFailedValue
              THEN /\ rec.pc = "failed"
                   /\ i = 1 => error =
                        IF Present(detail)
                        THEN Msg("Async Task Failed: Status '%': %", <<st, detail>>)
                        ELSE Msg("Async Task Failed: Status '%'", <<st>>)
              ELSE /\ rec.pc \in {"wait", "poll", "timedout"}
                   /\ rec.pc = "timedout" =>
                        i = 1 /\ responseData.timestamp > MaxDuration(config)

\* more polls than maxRetries were made and the run is still in the loop
C6_Witness ==
    \E i \in Run : /\ runs[i].running > config.maxRetries
                   /\ runs[i].pc = "wait"
                   /\ ~runs[i].aborted

C8_IdByPath ==
    /\ getValueByPath(Obj([data |-> Obj([task_id |-> Str("T1")])]), <<"data", "task_id">>)
          = Str("T1")
    /\ \A i \in Run :
        LET rec == runs[i]
            r == rec.lastSubmit
            path == config.submitResponseIdPath
            notFound == Msg("Async enabled, but could not find ID at '%' in response.", <<path>>)
        IN  (r.kind = "response" /\ Ok(r.status) /\ AsyncEnabled(config)) =>
              LET v == At(r.body, path)
              IN  /\ v = Missing => /\ rec.pc = "failed"
                                    /\ rec.issued = 0
                                    /\ i = 1 => error = notFound
                  /\ Present(v) => /\ Suspended(rec) => rec.taskId = v
                                   /\ i = 1 => error # notFound
                                   /\ \A c \in rec.calls :
                                        c.payload[config.pollIdParamKey] = v

\* the path leads nowhere in the body: Failed, no poll call
C8_Witness ==
    /\ Len(runs) >= 1
    /\ runs[1].lastSubmit.kind = "response"
    /\ Ok(runs[1].lastSubmit.status)
    /\ AsyncEnabled(config)
    /\ At(runs[1].lastSubmit.body, config.submitResponseIdPath) = Missing
    /\ runs[1].pc = "failed"

\* the payload C9 describes: per key, staticParams first, then the submit
\* payload when inherited, then the task id
ExpectedPollPayload(c, tid) ==
    LET sp == JSONParse(c.staticParamsJson)
        static == IF sp = SyntaxError THEN <<>> ELSE sp.o
        inherited == IF c.inheritParams THEN c.payload ELSE <<>>
    IN  [k \in {c.pollIdParamKey} \cup DOMAIN inherited \cup DOMAIN static |->
            IF k \in DOMAIN static THEN static[k]
            ELSE IF k \in DOMAIN inherited THEN inherited[k]
            ELSE tid]

\* C9: the payload of every poll call is { pollIdParamKey: taskId }
\* overlaid with the submit payload when inheritParams is set, overlaid
\* with the parsed staticParams: on a shared key the later source wins
C9_PayloadPrecedence ==
    \A i \in Run : \A c \in runs[i].calls :
        c.kind = "poll" => c.payload = ExpectedPollPayload(config, runs[i].taskId)

\* the key of the id is in the submit payload and in staticParams: the
\* poll call carries the value of staticParams
C9_Witness ==
    \E i \in Run : \E c \in runs[i].calls :
        /\ c.kind = "poll"
        /\ config.inheritParams
        /\ config.pollIdParamKey \in DOMAIN config.payload
        /\ c.payload[config.pollIdParamKey] = Str("S1")
        /\ c.payload["prompt"] = Str("p")

\* C10: a run has reported as many poll responses to the UI as it has
\* received and parsed, and the response shown is the last one of them,
\* whatever its status led to
C10_EveryResponseReported ==
    \A i \in Run :
        /\ runs[i].reported = runs[i].completed
        /\ (i = 1 /\ runs[i].lastResponse.kind = "response") =>
             /\ responseData # Null
             /\ responseData.status = runs[i].lastResponse.status
             /\ responseData.body = runs[i].lastResponse.body

\* two responses received, the second one terminal, both reported
C10_Witness ==
    /\ Len(runs) >= 1
    /\ runs[1].pc \in {"succeeded", "failed"}
    /\ runs[1].completed = 2
    /\ runs[1].reported = 2
    /\ responseData # Null
    /\ responseData.body = runs[1].lastResponse.body

IsPolling(shown) == shown # Null /\ shown.isPolling
Polling(rec) == Live(rec) /\ rec.pc \in {"wait", "poll"}
Settled(rec) == ~Live(rec)

\* C11: the response shown is flagged isPolling exactly while the youngest
\* run is in its poll loop and not cancelled, so every snapshot of the loop
\* carries the flag and the step that settles the run clears it; and once
\* the youngest run has settled no step sets the flag again
C11_PollingFlagStream ==
    /\ [](IsPolling(responseData) <=> (runs # <<>> /\ Polling(runs[1])))
    /\ [][(runs # <<>> /\ Settled(runs[1])) => ~IsPolling(responseData')]_vars

\* two snapshots were shown while polling, the second settled the run and
\* the flag is cleared
C11_Witness ==
    /\ runs # <<>>
    /\ runs[1].pc = "succeeded"
    /\ runs[1].reported = 2
    /\ responseData # Null
    /\ ~responseData.isPolling

\* C12: while the youngest run is suspended or after it was cancelled no
\* error is shown: neither the abort of a call in flight nor a cancellation
\* seen at a check point sets the error, which stays null as the send left it
C12_CancelIsNoError ==
    (runs # <<>> /\ (Suspended(runs[1]) \/ runs[1].aborted)) => error = Null

\* the stop button aborted the call in flight: the run has returned from
\* its catch block and no error is shown
C12_Witness ==
    /\ runs # <<>>
    /\ runs[1].pc = "aborted"
    /\ abortControllerRef = 0
    /\ ~loading
    /\ error = Null

Terminal(rec) == rec.pc \in {"succeeded", "failed", "timedout"}
Reported(shown) == IF shown = Null THEN Null ELSE <<shown.status, shown.body>>

\* C13: once the youngest run has settled in Succeeded, Failed or TimedOut,
\* every step that is not a new send, handleStopRequest among them, leaves
\* the status and body of the response shown and the error as they are
C13_StopKeepsTerminalReport ==
    [][(runs # <<>> /\ Terminal(runs[1]) /\ runs' # <<>> /\ runs'[1] = runs[1])
         => (error' = error /\ Reported(responseData') = Reported(responseData))]_vars

\* the stop button was pressed after the run had settled in Failed: the
\* response and the error are still shown
C13_Witness ==
    /\ runs # <<>>
    /\ runs[1].pc = "failed"
    /\ abortControllerRef = 0
    /\ error # Null
    /\ responseData # Null

\* C14 as stated: a run whose last poll response has a status outside 2xx
\* has settled in Failed, with no poll call in flight
C14_Original ==
    \A i \in Run :
        LET r == runs[i].lastResponse
        IN  (r.kind = "response" /\ ~Ok(r.status)) =>
              runs[i].pc = "failed" /\ runs[i].calls = {}

Broken(resp) == resp.kind \in {"failed", "unparsable"}

\* C15: a run whose submit call or last poll call failed in transport or
\* returned a body that does not parse has settled in Failed with no call
\* in flight and none issued after the failed one; an error is shown, and
\* loading and isPolling are false
C15_NoRetry ==
    \A i \in Run :
        LET rec == runs[i]
            shownFailed == i = 1 => /\ error # Null
                                    /\ ~loading
                                    /\ ~IsPolling(responseData)
        IN  /\ Broken(rec.lastSubmit) =>
                 /\ rec.pc = "failed"
                 /\ rec.calls = {}
                 /\ rec.issued = 0
                 /\ shownFailed
            /\ Broken(rec.lastResponse) =>
                 /\ rec.pc = "failed"
                 /\ rec.calls = {}
                 /\ rec.issued = rec.completed + 1
                 /\ shownFailed

\* the second poll call failed in transport: Failed after two poll calls
C15_Witness ==
    /\ runs # <<>>
    /\ runs[1].lastResponse.kind = "failed"
    /\ runs[1].issued = 2
    /\ runs[1].pc = "failed"
    /\ error = Msg("Polling Error: %", <<FailedToFetch>>)

AllSettled == (\A i \in Run : Settled(runs[i])) /\ ~loading

\* C16: every started run eventually settles, and then loading is false.
\* A run ends by its own outcome, by the stop button or by the next send,
\* which cancels it; so either no run is live and loading is false
\* infinitely often, or requests are sent again and again, each one
\* cancelling the run before it
C16_EveryRunSettles ==
    []<>AllSettled \/ []<><<HandleSendRequest(TRUE)>>_vars

\* every poll answered "running": the run sat out the default budget of
\* 120 seconds and settled in TimedOut
C16_Witness ==
    /\ runs # <<>>
    /\ runs[1].pc = "timedout"
    /\ config.timeoutSeconds = 0
    /\ error = TimeoutMsg
    /\ ~loading

(***************************************************************************)
(* Properties of the signer                                                *)
(***************************************************************************)
RECURSIVE Split(_, _)
Split(str, sep) ==
    IF \A i \in 1 .. Len(str) : str[i] # sep THEN <<str>>
    ELSE LET at == CHOOSE i \in 1 .. Len(str) :
                     str[i] = sep /\ \A j \in 1 .. (i - 1) : str[j] # sep
         IN  <<SubSeq(str, 1, at - 1)>> \o Split(SubSeq(str, at + 1, Len(str)), sep)
LastLine(str) == LET lines == Split(str, LF) IN lines[Len(lines)]
StartsWith(str, prefix) ==
    Len(str) >= Len(prefix) /\ SubSeq(str, 1, Len(prefix)) = prefix
Ascending(strings) ==
    \A i \in 1 .. (Len(strings) - 1) : ~LexLess(strings[i + 1], strings[i])

\* the same elements, each as many times
SameElements(a, b) ==
    /\ Len(a) = Len(b)
    /\ \E f \in Permutations(1 .. Len(a)) : \A i \in 1 .. Len(a) : b[i] = a[f[i]]

\* the same keys with the same values, arrays compared without their order
SameContent(p, q) ==
    /\ Len(p) = Len(q)
    /\ \A i \in 1 .. Len(p) :
         /\ Has(q, p[i][1])
         /\ LET v == p[i][2]
                w == Lookup(q, p[i][1])
            IN  /\ v.t = w.t
                /\ IF v.t = "array" THEN SameElements(v.a, w.a) ELSE v = w

\* C17: the canonical query string of the request signed is the one of
\* every params map with the same content, whatever the order of its keys
\* and of the elements of its arrays; its pairs come by ascending key
C17_QueryOrderIndependent ==
    Signed =>
      LET params == signing.options.params
          query == signing.out.canonicalQuery
          named == {i \in 1 .. Len(params) : QueryPiece(params, params[i][1]) # <<>>}
      IN  /\ \A q \in ParamMaps :
                SameContent(q, params) => queryParamsToString(q, TRUE) = query
          /\ \E f \in [1 .. Cardinality(named) -> named] :
                /\ \A i \in named : \E k \in DOMAIN f : f[k] = i
                /\ Ascending([k \in DOMAIN f |-> params[f[k]][1]])
                /\ query = Join([k \in DOMAIN f |-> QueryPiece(params, params[f[k]][1])],
                                S(<<"&">>))

\* the keys of the params map signed are not in ascending order and one of
\* its values is an array whose elements are not either
C17_Witness ==
    /\ Signed
    /\ ~Ascending(Keys(signing.options.params))
    /\ \E i \in 1 .. Len(signing.options.params) :
         LET v == signing.options.params[i][2]
         IN  v.t = "array" /\ ~Ascending(Map(uriEscape, v.a))

\* C18: the content-hash header that signRequest returns is the hash of
\* the body string: of the very string makeRequest hands to fetch, with the
\* headers returned; and the last line of the canonical string signed is
\* the value of that header
C18_HashOfTransmittedBody ==
    Signed =>
      LET header == Lookup(signing.out.headers, contentSha256Header)
          body == signing.options.body
      IN  /\ Has(signing.out.headers, contentSha256Header)
          /\ LastLine(signing.out.canonicalString) = header
          /\ body.t = "string" => header = sha256(body.s)
          /\ body.t = "undefined" => header = sha256(<<>>)
          /\ signing.pc = "sent" =>
               /\ signing.fetch.headers = signing.out.headers
               /\ header = sha256(signing.fetch.body)
               /\ signing.fetch.body = JSONStringify(signing.payload.o)

\* makeRequest sent the body {"p":"v"}
C18_Witness ==
    /\ signing.pc = "sent"
    /\ signing.fetch.body =
         <<Ascii("{"), Ascii("quote"), Ascii("p"), Ascii("quote"), Ascii(":"),
           Ascii("quote"), Ascii("v"), Ascii("quote"), Ascii("}")>>

EmptyObjectRequest ==
    /\ Signed
    /\ signing.options.method = S(<<"P", "O", "S", "T">>)
    /\ signing.options.pathname = S(<<"/">>)
    /\ signing.options.params = <<>>

\* C19 as stated: with POST, /, an empty query and the body {} the last
\* line of the canonical string is the hash of the empty string
C19_Original ==
    (EmptyObjectRequest /\ signing.options.body = Obj(<<>>))
        => LastLine(signing.out.canonicalString) = sha256(<<>>)

\* C19 amended: with POST, /, an empty query and the body {}, given as an
\* object or as its text, the last line of the canonical string is the hash
\* of the two characters {}; it is the hash of the empty string when there
\* is no body or the body is the empty string
C19_EmptyObjectBodyHash ==
    EmptyObjectRequest =>
      LET body == signing.options.body
          last == LastLine(signing.out.canonicalString)
      IN  /\ body \in {Obj(<<>>), Str(S(<<"{", "}">>))} => last = sha256(S(<<"{", "}">>))
          /\ body \in {Undef, Str(<<>>)} => last = sha256(<<>>)
          /\ sha256(S(<<"{", "}">>)) # sha256(<<>>)

\* POST, /, empty query, body {} was signed
C19_Witness ==
    EmptyObjectRequest /\ signing.options.body = Obj(<<>>)

\* C20: the names of the signed-header list and the lines of the canonical
\* headers block go together one to one, in ascending order of the names:
\* line i is name i, a colon and a value; no name of the deny-list is among
\* them, and every other header signed over is
C20_DenyListAndSameHeaders ==
    Signed =>
      LET names == Split(signing.out.signedHeaders, Ascii(";"))
          lines == Split(signing.out.canonicalHeaders, LF)
          given == {toLowerCase(signing.out.headers[i][1]) :
                       i \in {j \in 1 .. Len(signing.out.headers) :
                                signing.out.headers[j][1] # AuthorizationHeader}}
      IN  /\ Len(names) = Len(lines)
          /\ Ascending(names)
          /\ \A i \in 1 .. Len(names) :
                /\ StartsWith(lines[i], names[i] \o S(<<":">>))
                /\ names[i] \notin UNSIGNABLE_HEADERS
                /\ names[i] \in given
          /\ \A name \in given \ UNSIGNABLE_HEADERS : \E i \in 1 .. Len(names) : names[i] = name
          /\ \A deny \in UNSIGNABLE_HEADERS : \A i \in 1 .. Len(lines) :
                ~StartsWith(lines[i], deny \o S(<<":">>))

\* the headers given hold a name of the deny-list that is not in lower case
C20_Witness ==
    /\ Signed
    /\ \E i \in 1 .. Len(signing.options.headers) :
         LET name == signing.options.headers[i][1]
         IN  toLowerCase(name) \in UNSIGNABLE_HEADERS /\ name # toLowerCase(name)
    /\ \E i \in 1 .. Len(signing.options.headers) :
         toLowerCase(signing.options.headers[i][1]) \notin UNSIGNABLE_HEADERS

\* the `key=value` pairs of a canonical query string
Pairs(query) == IF query = <<>> THEN <<>> ELSE Split(query, Ascii("&"))
PairsOf(query, key) ==
    SelectSeq(Pairs(query), LAMBDA pair : StartsWith(pair, uriEscape(key) \o S(<<"=">>)))

\* C21 as stated: a parameter whose value is the empty string or undefined
\* has no `key=` pair in the canonical query string
C21_Original ==
    Signed =>
      \A i \in 1 .. Len(signing.options.params) :
         LET key == signing.options.params[i][1]
             val == signing.options.params[i][2]
         IN  (val = Undef \/ val = Str(<<>>))
                => PairsOf(signing.out.canonicalQuery, key) = <<>>

\* C21 amended: a parameter whose value is undefined or null has no pair
\* in the canonical query string; one whose value is the empty string has
\* the pair `key=`, with nothing after the equals sign
C21_EmptyKeptUndefinedDropped ==
    Signed =>
      \A i \in 1 .. Len(signing.options.params) :
         LET key == signing.options.params[i][1]
             val == signing.options.params[i][2]
             pairs == PairsOf(signing.out.canonicalQuery, key)
         IN  /\ val \in {Undef, Null} => pairs = <<>>
             /\ (val = Str(<<>>) /\ uriEscape(key) # <<>>)
                   => pairs = <<uriEscape(key) \o S(<<"=">>)>>

\* params with an empty string and an undefined value were signed
C21_Witness ==
    /\ Signed
    /\ \E i \in 1 .. Len(signing.options.params) : signing.options.params[i][2] = Str(<<>>)
    /\ \E i \in 1 .. Len(signing.options.params) : signing.options.params[i][2] = Undef

IterationStart ==
    /\ runs # <<>> /\ runs' # <<>>
    /\ Live(runs[1]) /\ runs[1].calls # {}
    /\ runs'[1].calls = {}
    /\ runs'[1].pc \in {"wait", "timedout"}

\* C23 as stated: at the start of an iteration the run times out exactly
\* when the time since the submit request was sent exceeds timeoutSeconds
C23_Original ==
    [][IterationStart =>
          (runs'[1].pc = "timedout"
             <=> runs[1].sinceStart > config.timeoutSeconds * MsPerSecond)]_vars

\* C23 amended: at the start of an iteration the run times out exactly
\* when the time since polling began, that is since the submit response was
\* handled, exceeds the budget of (timeoutSeconds || 120) seconds; the time
\* the submit call took is not counted; a run that times out shows the
\* timeout error with loading and isPolling false
C23_TimeoutSincePollStart ==
    [][IterationStart =>
          /\ runs'[1].pc = "timedout"
               <=> runs[1].sincePollStart > MaxDuration(config)
          /\ runs[1].pc = "submit" => runs[1].sincePollStart = 0
          /\ runs'[1].pc = "timedout" =>
               error' = TimeoutMsg /\ ~loading' /\ ~IsPolling(responseData')
          /\ runs'[1].pc = "wait" =>
               runs'[1].timerLeft = config.pollInterval /\ error' = error]_vars

\* an iteration has just started, more than timeoutSeconds after the
\* submit request was sent, and the run waits for its next poll
C23_Witness ==
    /\ runs # <<>>
    /\ Live(runs[1])
    /\ runs[1].pc = "wait"
    /\ runs[1].timerLeft = config.pollInterval
    /\ config.timeoutSeconds # 0
    /\ runs[1].sinceStart > config.timeoutSeconds * MsPerSecond

StaticParamsBroken ==
    config.staticParamsJson # <<>> /\ JSONParse(config.staticParamsJson) = SyntaxError

\* the payload without staticParams: the task id under its key, and the
\* members of the submit payload when they are inherited
PayloadWithoutStatic(rec) ==
    LET inherited == IF config.inheritParams THEN config.payload ELSE <<>>
    IN  [k \in {config.pollIdParamKey} \cup DOMAIN inherited |->
            IF k \in DOMAIN inherited THEN inherited[k] ELSE rec.taskId]

\* the timer of the youngest run has fired and the run went on
WaitOver ==
    /\ runs # <<>> /\ runs' # <<>>
    /\ Live(runs[1]) /\ runs[1].pc = "wait" /\ runs[1].timerLeft = 0
    /\ runs'[1].pc \notin {"wait", "submit"}

\* C24: with a staticParamsJson that does not parse, the step after the
\* wait still issues the poll call, whose payload is the task id and, when
\* inherited, the submit payload; the run is then suspended on that call,
\* in its loop, with no error shown and loading and isPolling as they were
C24_BrokenStaticParamsNotFatal ==
    /\ [](StaticParamsBroken =>
            \A i \in Run : \A c \in runs[i].calls :
               c.kind = "poll" =>
                  /\ c.payload = PayloadWithoutStatic(runs[i])
                  /\ runs[i].pc = "poll"
                  /\ i = 1 => error = Null /\ loading /\ IsPolling(responseData))
    /\ [][(StaticParamsBroken /\ WaitOver) =>
            /\ runs'[1].pc = "poll"
            /\ runs'[1].issued = runs[1].issued + 1
            /\ \E c \in runs'[1].calls : c.kind = "poll" /\ c.n = runs'[1].issued
            /\ UNCHANGED uiVars]_vars

\* the second poll call is in flight, the source of staticParams does not
\* parse and the submit payload is inherited
C24_Witness ==
    /\ StaticParamsBroken
    /\ config.inheritParams
    /\ config.payload # <<>>
    /\ runs # <<>>
    /\ runs[1].pc = "poll"
    /\ runs[1].issued = 2
    /\ error = Null

\* C25: a run is in its poll loop only when the service has an asyncConfig
\* that is enabled; without one, or with enabled false, no poll call is
\* ever issued, the response is never flagged isPolling, and a run whose
\* submit response has a 2xx status has settled with that response shown,
\* loading false and no error
C25_PollingOnlyWhenAsync ==
    /\ \A i \in Run : runs[i].pc \in {"wait", "poll"} => AsyncEnabled(config)
    /\ ~(config.present /\ config.enabled) =>
         /\ ~IsPolling(responseData)
         /\ \A i \in Run :
              LET rec == runs[i]
                  r == rec.lastSubmit
              IN  /\ rec.issued = 0
                  /\ \A c \in rec.calls : c.kind = "submit"
                  /\ rec.pc \notin {"wait", "poll", "timedout", "succeeded"}
                  /\ (r.kind = "response" /\ Ok(r.status)) =>
                       /\ rec.pc = "settled"
                       /\ i = 1 => /\ ~loading
                                   /\ error = Null
                                   /\ responseData # Null
                                   /\ responseData.body = r.body

\* asyncConfig is there with enabled false; the submit response carried a
\* task id and the run has settled
C25_Witness ==
    /\ config.present /\ ~config.enabled
    /\ runs # <<>>
    /\ runs[1].pc = "settled"
    /\ At(runs[1].lastSubmit.body, config.submitResponseIdPath) = Str("T1")
    /\ ~loading

\* C26: every step that changes loading, the error or the response shown
\* is handleStopRequest, a new handleSendRequest, or the step of a run that
\* is not cancelled and owns the controller in the ref, on the response to
\* its call; a cancelled run writes none of them, and has no call in flight
\* whose response could lead it to the timeout check
C26_CancelledRunWritesNothing ==
    /\ [](\A i \in Run : runs[i].aborted => runs[i].calls = {})
    /\ [][uiVars' # uiVars =>
            \/ HandleStopRequest
            \/ HandleSendRequest(TRUE)
            \/ \E i \in Run :
                 /\ ~runs[i].aborted
                 /\ i = abortControllerRef
                 /\ \/ \E resp \in Responses(SubmitBodies) : SubmitResponse(i, resp)
                    \/ \E resp \in Responses(PollBodies) : PollResponse(i, resp)]_vars

\* the stop button was pressed during the wait of a polling run; its timer
\* has fired since and the run has returned: what is shown is what the stop
\* left, the last snapshot with isPolling false and no error
C26_Witness ==
    /\ runs # <<>>
    /\ runs[1].pc = "cancelled"
    /\ abortControllerRef = 0
    /\ ~loading
    /\ error = Null
    /\ responseData # Null
    /\ ~responseData.isPolling

\* C27: a response flagged isPolling is shown only while loading is true:
\* a step that clears loading leaves no response flagged isPolling, and no
\* step flags one while loading is false
C27_PollingImpliesLoading ==
    IsPolling(responseData) => loading

\* a poll call failed after a snapshot had been shown with the flag set:
\* loading is cleared, and so is the flag of the snapshot
C27_Witness ==
    /\ runs # <<>>
    /\ runs[1].pc = "failed"
    /\ Broken(runs[1].lastResponse)
    /\ runs[1].reported >= 1
    /\ responseData # Null
    /\ ~responseData.isPolling
    /\ ~loading

\* 0, the empty string, false and null
Falsy == {Num(0), Str(""), Bool(FALSE), Null}

\* the walk along the path meets one of them, at its end or on its way
RECURSIVE MeetsFalsy(_, _)
MeetsFalsy(v, path) ==
    \/ v \in Falsy
    \/ /\ path # <<>>
       /\ v.t = "object"
       /\ Head(path) \in DOMAIN v.o
       /\ MeetsFalsy(v.o[Head(path)], Tail(path))

\* C28: when the service is asynchronous and the body of a 2xx submit
\* response holds 0, the empty string, false or null at submitResponseIdPath
\* or in a field on the way to it, the run has settled in Failed with the
\* "could not find ID" error, loading false, and no poll call was made
C28_FalsyIdIsNotFound ==
    \A i \in Run :
        LET rec == runs[i]
            r == rec.lastSubmit
        IN  (/\ r.kind = "response" /\ Ok(r.status)
             /\ config.present /\ config.enabled
             /\ MeetsFalsy(r.body, config.submitResponseIdPath))
            => /\ rec.pc = "failed"
               /\ rec.taskId = Undef
               /\ rec.issued = 0
               /\ rec.calls = {}
               /\ i = 1 =>
                    /\ error = Msg("Async enabled, but could not find ID at '%' in response.",
                                   <<config.submitResponseIdPath>>)
                    /\ ~loading
                    /\ ~IsPolling(responseData)

\* the id in the body of the submit response is false
C28_Witness ==
    /\ runs # <<>>
    /\ runs[1].lastSubmit.kind = "response"
    /\ Ok(runs[1].lastSubmit.status)
    /\ At(runs[1].lastSubmit.body, config.submitResponseIdPath) = Bool(FALSE)
    /\ config.submitResponseIdPath = IdPath
    /\ config.present /\ config.enabled
    /\ runs[1].pc = "failed"

\* C29: with timeoutSeconds 0 the budget is 120 seconds: a run is never
\* timed out before it made a poll call, the first iteration suspends on
\* the timer and the call follows; a run that timed out has shown a
\* response taken more than 120 seconds after the submit was sent
C29_ZeroMeansDefaultBudget ==
    /\ [](config.timeoutSeconds = 0 =>
            /\ \A i \in Run :
                 LET rec == runs[i]
                     r == rec.lastSubmit
                 IN  /\ rec.pc = "timedout" => rec.issued >= 1
                     /\ (/\ r.kind = "response" /\ Ok(r.status) /\ rec.issued = 0
                         /\ Present(At(r.body, config.submitResponseIdPath))
                         /\ Live(rec))
                        => rec.pc = "wait"
            /\ (runs # <<>> /\ runs[1].pc = "timedout") =>
                 /\ responseData # Null
                 /\ responseData.timestamp > 120 * MsPerSecond
                 /\ error = Msg("Polling timed out after % seconds.", <<Num(120)>>))
    /\ [][(config.timeoutSeconds = 0 /\ WaitOver /\ runs[1].issued = 0)
             => runs'[1].pc = "poll" /\ runs'[1].issued = 1]_vars

\* timeoutSeconds is 0 and the second poll call is in flight
C29_Witness ==
    /\ config.timeoutSeconds = 0
    /\ runs # <<>>
    /\ runs[1].pc = "poll"
    /\ runs[1].issued = 2
    /\ loading

\* C30: the timeout is read when an iteration starts and nowhere else: when
\* the wait is over the poll call is made whatever time has passed, the
\* budget having expired during the wait or not, and nothing shown changes;
\* a run becomes TimedOut only in the step that starts an iteration, on the
\* response to a poll call, and never while it waits
C30_TimeoutOnlyAtIterationStart ==
    /\ [][WaitOver =>
            /\ runs'[1].pc = "poll"
            /\ \E c \in runs'[1].calls :
                 c.kind = "poll" /\ c.at = runs[1].sincePollStart
            /\ UNCHANGED uiVars]_vars
    /\ [][(/\ runs' # <<>> /\ runs'[1].pc = "timedout"
           /\ ~(runs # <<>> /\ runs[1].pc = "timedout"))
            => (IterationStart /\ runs[1].pc = "poll"
                  /\ runs[1].sincePollStart > MaxDuration(config))]_vars

\* the poll call in flight was made a budget and a polling interval after
\* polling began: the budget expired during the wait before it
C30_Witness ==
    /\ runs # <<>>
    /\ runs[1].pc = "poll"
    /\ \E c \in runs[1].calls :
         c.kind = "poll" /\ c.at = MaxDuration(config) + config.pollInterval
====
